---- MODULE Spec2Model ----
(***************************************************************************)
(* A model of the thinkerbell rule engine: the script compiler             *)
(* (src/compile.rs), the ranges (src/values.rs), the execution controller  *)
(* `Execution` and the worker `ExecutionTask` (src/run.rs).                *)
(*                                                                         *)
(* One controller is driven by a client that calls start and stop, and     *)
(* that may drop it.  Each accepted start spawns a worker thread.  The     *)
(* Device API delivers watch events to the inbox of a worker through the   *)
(* subscriptions the worker has opened.  Indices are 0-based as in the     *)
(* source; sequences are 1-based, hence the `+ 1` where a sequence is      *)
(* indexed.                                                                *)
(***************************************************************************)
EXTENDS Integers, Sequences, FiniteSets, TLC

\* ------------------------------------------------------------------ bounds
\* A behaviour is explored within a budget: a number of calls to start, of
\* calls to stop (the one made by a drop included), and of watch events
\* delivered by the Device API.  Three
\* budgets are explored; a budget also says whether the Device API is faulty
\* and reports values of another type than that of the sensor (misrouted):
\*  - one execution that is not stopped, with MaxEvents watch events;
\*  - one execution and one stop, with MaxStopEvents watch events;
\*  - MaxStarts calls to start and MaxStops calls to stop, with one watch event.
MaxStarts == 2
MaxStops == 2
MaxEvents == 3
MaxStopEvents == 2

\* The scripts given to the compiler have at most MaxRules rules, of at most
\* MaxConditions conditions each.
MaxRules == 2
MaxConditions == 1

\* The numbers given to the operations on ranges are 0..MaxNum.
MaxNum == 2

Budgets ==
    { [starts |-> 1, stops |-> 0, events |-> MaxEvents, misrouted |-> FALSE],
      [starts |-> 1, stops |-> 1, events |-> MaxStopEvents, misrouted |-> FALSE],
      [starts |-> MaxStarts, stops |-> MaxStops, events |-> 1, misrouted |-> FALSE] }

\* ------------------------------------------------------- values and ranges
Num(n) == [type |-> "Num", n |-> n]
Bool(n) == [type |-> "Bool", n |-> n]

\* The values the Device API reports in watch events.
Values == {Num(0), Num(2)}

\* The values of another type that a faulty Device API reports for a sensor
\* of numbers.
MisroutedValues == {Bool(1)}

\* The values and the ranges given to the operations on ranges.
ProbeValues == {Num(n) : n \in 0..MaxNum} \cup {Bool(0), Bool(1)}

\* Comparison of values: ordered within one type, unrelated across types.
ValLeq(a, b) == a.type = b.type /\ a.n <= b.n
ValLt(a, b) == a.type = b.type /\ a.n < b.n
ValEq(a, b) == a.type = b.type /\ a.n = b.n

Leq(v) == [tag |-> "Leq", min |-> v, max |-> v]
Geq(v) == [tag |-> "Geq", min |-> v, max |-> v]
Eq(v) == [tag |-> "Eq", min |-> v, max |-> v]
BetweenEq(lo, hi) == [tag |-> "BetweenEq", min |-> lo, max |-> hi]
OutOfStrict(lo, hi) == [tag |-> "OutOfStrict", min |-> lo, max |-> hi]
AnyRange == [tag |-> "Any", min |-> Num(0), max |-> Num(0)]

ProbeRanges ==
    {Leq(v) : v \in ProbeValues} \cup {Geq(v) : v \in ProbeValues} \cup {Eq(v) : v \in ProbeValues}
    \cup {BetweenEq(lo, hi) : lo \in ProbeValues, hi \in ProbeValues}
    \cup {OutOfStrict(lo, hi) : lo \in ProbeValues, hi \in ProbeValues}
    \cup {AnyRange}

\* Mutant: the upper bound of BetweenEq is not accepted.
contains_strict_upper(range, value) ==
    CASE range.tag = "Leq" -> ValLeq(value, range.max)
      [] range.tag = "Geq" -> ValLeq(range.min, value)
      [] range.tag = "BetweenEq" -> ValLeq(range.min, value) /\ ValLt(value, range.max)
      [] range.tag = "OutOfStrict" -> ValLt(value, range.min) \/ ValLt(range.max, value)
      [] range.tag = "Eq" -> ValEq(value, range.min)
      [] range.tag = "Any" -> TRUE

\* Mutant: the values are compared whatever their types.
contains_untyped(range, value) ==
    CASE range.tag = "Leq" -> value.n <= range.max.n
      [] range.tag = "Geq" -> range.min.n <= value.n
      [] range.tag = "BetweenEq" -> range.min.n <= value.n /\ value.n <= range.max.n
      [] range.tag = "OutOfStrict" -> value.n < range.min.n \/ range.max.n < value.n
      [] range.tag = "Eq" -> value.n = range.min.n
      [] range.tag = "Any" -> TRUE

\* Range::contains
contains(range, value) ==
    CASE range.tag = "Leq" -> ValLeq(value, range.max)
      [] range.tag = "Geq" -> ValLeq(range.min, value)
      [] range.tag = "BetweenEq" -> ValLeq(range.min, value) /\ ValLeq(value, range.max)
      [] range.tag = "OutOfStrict" -> ValLt(value, range.min) \/ ValLt(range.max, value)
      [] range.tag = "Eq" -> ValEq(value, range.min)
      [] range.tag = "Any" -> TRUE

\* Mutant: the type of a range is the type of its lower bound.
get_type_of_min(range) ==
    CASE range.tag \in {"Leq", "Geq", "Eq", "BetweenEq", "OutOfStrict"} ->
            [ok |-> TRUE, typ |-> range.min.type]
      [] range.tag = "Any" -> [ok |-> TRUE, typ |-> "NoType"]

\* Range::get_type: Ok(Some(t)), Ok(None) (typ = "NoType") or Err(()).
get_type(range) ==
    CASE range.tag \in {"Leq", "Geq", "Eq"} -> [ok |-> TRUE, typ |-> range.min.type]
      [] range.tag \in {"BetweenEq", "OutOfStrict"} ->
            IF range.min.type = range.max.type
            THEN [ok |-> TRUE, typ |-> range.min.type]
            ELSE [ok |-> FALSE, typ |-> "NoType"]
      [] range.tag = "Any" -> [ok |-> TRUE, typ |-> "NoType"]

\* The type of the values of a kind of service.
KindGetType(kind) == IF kind = "OnOff" THEN "Bool" ELSE "Num"

\* ---------------------------------------------------------------- scripts
\* A selector names a service; the compiler adds the kind.
Selector(id) == [id |-> id, kind |-> "NoKind"]
with_kind(selector, kind) == [selector EXCEPT !.kind = kind]

Match(source, kind, range) == [source |-> source, kind |-> kind, range |-> range]
Statement(destination, kind, value) ==
    [destination |-> destination, kind |-> kind, value |-> value]
Rule(conditions, execute) == [conditions |-> conditions, execute |-> execute]

\* The scripts the client may start.
\*  "or":    one rule, one condition fed by two sensors, two statements, the
\*           first of which sends a boolean to an actuator of numbers
\*  "and":   one rule, two conditions fed by one sensor each, one statement
\*  "empty": no rule
Scripts ==
    [ or |-> [rules |-> << Rule(<< Match({Selector("s1"), Selector("s2")}, "Number", Geq(Num(1))) >>,
                                << Statement({Selector("fan")}, "Number", Bool(1)),
                                   Statement({Selector("lamp"), Selector("fan")}, "OnOff", Bool(1)) >>) >>],
      and |-> [rules |-> << Rule(<< Match({Selector("s1")}, "Number", Geq(Num(1))),
                                    Match({Selector("s2")}, "Number", Geq(Num(1))) >>,
                                 << Statement({Selector("lamp")}, "OnOff", Bool(1)) >>) >>],
      empty |-> [rules |-> << >>] ]

ScriptNames == DOMAIN Scripts

\* The conditions a client may write about sensor s1, of kind "Number":
\* a range of numbers, a range of another type, a range whose bounds are of
\* two types, and the range without a type.
SourceMatches ==
    { Match({Selector("s1")}, "Number", Geq(Num(1))),
      Match({Selector("s1")}, "Number", Eq(Bool(1))),
      Match({Selector("s1")}, "Number", BetweenEq(Num(0), Bool(1))),
      Match({Selector("s1")}, "Number", AnyRange) }

\* The statements a client may write.
SourceStatements == { Statement({Selector("lamp")}, "OnOff", Bool(1)) }

\* The sequences of at most n elements of S.
SeqsUpTo(S, n) == UNION { [1..m -> S] : m \in 0..n }

\* The rules and the scripts a client may write, well-formed or not.
SourceRules ==
    { Rule(conditions, execute) :
        conditions \in SeqsUpTo(SourceMatches, MaxConditions),
        execute \in {<< >>} \cup { << statement >> : statement \in SourceStatements } }
SourceScripts == { [rules |-> rules] : rules \in SeqsUpTo(SourceRules, MaxRules) }

\* The scripts given to the compiler: those, the scripts above, and a script
\* of two different rules.
CompileScripts ==
    SourceScripts \cup { Scripts[name] : name \in ScriptNames }
    \cup { [rules |-> Scripts.and.rules \o Scripts.or.rules] }

\* ---------------------------------------------------------------- compiler
\* util::map with try!: the results in order, or the first error.
RECURSIVE FirstError(_)
FirstError(results) ==
    IF results = << >> THEN "Ok"
    ELSE IF Head(results).err # "Ok" THEN Head(results).err
    ELSE FirstError(Tail(results))

\* Mutant: the type of the range is not compared with the type of the kind.
compile_match_any_kind(match_) ==
    LET typ == get_type(match_.range) IN
    IF ~typ.ok THEN [err |-> "InvalidRange", node |-> match_]
    ELSE [err |-> "Ok",
          node |-> [match_ EXCEPT !.source = {with_kind(input, match_.kind) : input \in match_.source}]]

compile_match(match_) ==
    LET typ == get_type(match_.range) IN
    IF ~typ.ok THEN [err |-> "InvalidRange", node |-> match_]
    ELSE IF KindGetType(match_.kind) # typ.typ
    THEN [err |-> "KindAndRangeDoNotAgree", node |-> match_]
    ELSE [err |-> "Ok",
          node |-> [match_ EXCEPT !.source = {with_kind(input, match_.kind) : input \in match_.source}]]

\* Mutant: the selectors of the destination are left without a kind.
compile_statement_undecorated(statement) == [err |-> "Ok", node |-> statement]

compile_statement(statement) ==
    [err |-> "Ok",
     node |-> [statement EXCEPT
                 !.destination = {with_kind(output, statement.kind) : output \in statement.destination}]]

\* Mutant: a rule is not checked for statements or for conditions.
compile_trigger_unchecked(trigger) ==
    LET conditions == [i \in 1..Len(trigger.conditions) |-> compile_match(trigger.conditions[i])]
        execute == [i \in 1..Len(trigger.execute) |-> compile_statement(trigger.execute[i])]
    IN IF FirstError(conditions) # "Ok" THEN [err |-> FirstError(conditions), node |-> trigger]
       ELSE IF FirstError(execute) # "Ok" THEN [err |-> FirstError(execute), node |-> trigger]
       ELSE [err |-> "Ok",
             node |-> Rule([i \in 1..Len(conditions) |-> conditions[i].node],
                           [i \in 1..Len(execute) |-> execute[i].node])]

\* Mutant: the conditions of a rule are checked before its statements.
compile_trigger_conditions_first(trigger) ==
    IF Len(trigger.conditions) = 0 THEN [err |-> "NoConditions", node |-> trigger]
    ELSE LET conditions == [i \in 1..Len(trigger.conditions) |-> compile_match(trigger.conditions[i])]
             execute == [i \in 1..Len(trigger.execute) |-> compile_statement(trigger.execute[i])]
         IN IF FirstError(conditions) # "Ok" THEN [err |-> FirstError(conditions), node |-> trigger]
            ELSE IF Len(trigger.execute) = 0 THEN [err |-> "NoStatements", node |-> trigger]
            ELSE [err |-> "Ok",
                  node |-> Rule([i \in 1..Len(conditions) |-> conditions[i].node],
                                [i \in 1..Len(execute) |-> execute[i].node])]

compile_trigger(trigger) ==
    IF Len(trigger.execute) = 0 THEN [err |-> "NoStatements", node |-> trigger]
    ELSE IF Len(trigger.conditions) = 0 THEN [err |-> "NoConditions", node |-> trigger]
    ELSE LET conditions == [i \in 1..Len(trigger.conditions) |-> compile_match(trigger.conditions[i])]
             execute == [i \in 1..Len(trigger.execute) |-> compile_statement(trigger.execute[i])]
         IN IF FirstError(conditions) # "Ok" THEN [err |-> FirstError(conditions), node |-> trigger]
            ELSE IF FirstError(execute) # "Ok" THEN [err |-> FirstError(execute), node |-> trigger]
            ELSE [err |-> "Ok",
                  node |-> Rule([i \in 1..Len(conditions) |-> conditions[i].node],
                                [i \in 1..Len(execute) |-> execute[i].node])]

\* Mutant: a script is not checked for rules.
compile_script_unchecked(script) ==
    LET rules == [i \in 1..Len(script.rules) |-> compile_trigger(script.rules[i])]
    IN IF FirstError(rules) # "Ok" THEN [err |-> FirstError(rules), node |-> script]
       ELSE [err |-> "Ok", node |-> [rules |-> [i \in 1..Len(rules) |-> rules[i].node]]]

\* Mutant: the compiled rules come out last first.
compile_script_reversed(script) ==
    IF Len(script.rules) = 0 THEN [err |-> "NoRules", node |-> script]
    ELSE LET rules == [i \in 1..Len(script.rules) |-> compile_trigger(script.rules[i])]
         IN IF FirstError(rules) # "Ok" THEN [err |-> FirstError(rules), node |-> script]
            ELSE [err |-> "Ok",
                  node |-> [rules |-> [i \in 1..Len(rules) |-> rules[Len(rules) - i + 1].node]]]

compile_script(script) ==
    IF Len(script.rules) = 0 THEN [err |-> "NoRules", node |-> script]
    ELSE LET rules == [i \in 1..Len(script.rules) |-> compile_trigger(script.rules[i])]
         IN IF FirstError(rules) # "Ok" THEN [err |-> FirstError(rules), node |-> script]
            ELSE [err |-> "Ok", node |-> [rules |-> [i \in 1..Len(rules) |-> rules[i].node]]]

\* Compiler::compile
compile(script) == compile_script(script)

\* -------------------------------------------------------------- Device API
\* The services of the simulated home: getters (sensors) and setters
\* (actuators), each with its kind.
Getters == [s1 |-> "Number", s2 |-> "Number"]
Setters == [lamp |-> "OnOff", fan |-> "Number"]

\* A selector matches a service of that id and, when it carries one, of that kind.
Matches(selector, services, id) ==
    selector.id = id /\ (selector.kind = "NoKind" \/ selector.kind = services[id])

\* API::send_values on one (destination, value) pair: one result for every
\* setter the destination resolves to; a value of the wrong type is refused.
send_values(destination, value) ==
    { [id |-> id,
       result |-> IF value.type = KindGetType(Setters[id]) THEN "Ok" ELSE "APIError"] :
      id \in {x \in DOMAIN Setters : \E selector \in destination : Matches(selector, Setters, x)} }

\* Statement::eval
eval(statement) == send_values(statement.destination, statement.value)

\* ------------------------------------------------------------------ events
NoValue == Num(0)

\* WatchEvent
GetterAdded(id) == [kind |-> "GetterAdded", id |-> id, value |-> NoValue]
GetterRemoved(id) == [kind |-> "GetterRemoved", id |-> id, value |-> NoValue]
EnterRange(id, value) == [kind |-> "EnterRange", id |-> id, value |-> value]
ExitRange(id, value) == [kind |-> "ExitRange", id |-> id, value |-> value]
InitializationError(id) == [kind |-> "InitializationError", id |-> id, value |-> NoValue]

\* The events a watch may deliver about getter id.
WatchEvents(id) ==
    {GetterAdded(id), GetterRemoved(id), InitializationError(id)}
    \cup {EnterRange(id, v) : v \in Values} \cup {ExitRange(id, v) : v \in Values}

\* The events of a faulty watch: a value of another type than that of the getter.
MisroutedEvents(id) ==
    {EnterRange(id, v) : v \in MisroutedValues} \cup {ExitRange(id, v) : v \in MisroutedValues}

\* ExecutionOp
Update(event, rule_index, condition_index) ==
    [op |-> "Update", event |-> event, rule_index |-> rule_index,
     condition_index |-> condition_index, cb |-> 0]
Stop(cb) ==
    [op |-> "Stop", event |-> GetterAdded("s1"), rule_index |-> 0,
     condition_index |-> 0, cb |-> cb]

\* ExecutionEvent
Starting(result) ==
    [ev |-> "Starting", result |-> result, rule_index |-> 0, statement_index |-> 0,
     results |-> {}, id |-> ""]
Sent(rule_index, statement_index, results) ==
    [ev |-> "Sent", result |-> "", rule_index |-> rule_index,
     statement_index |-> statement_index, results |-> results, id |-> ""]
ChannelError(id) ==
    [ev |-> "ChannelError", result |-> "APIError", rule_index |-> 0, statement_index |-> 0,
     results |-> {}, id |-> id]

\* ------------------------------------------------------- the worker's state
\* ConditionState and RuleState as the worker creates them.
ConditionState0(condition) ==
    [match_is_met |-> FALSE, per_getter |-> [x \in {} |-> FALSE], range |-> condition.range]
RuleState0(rule) ==
    [rule_is_met |-> FALSE,
     per_condition |-> [i \in 1..Len(rule.conditions) |-> ConditionState0(rule.conditions[i])]]
PerRule0(script) == [i \in 1..Len(script.rules) |-> RuleState0(script.rules[i])]

\* One subscription per (rule, condition), in the order of the calls to watch_values.
RECURSIVE Flatten(_)
Flatten(seqs) == IF seqs = << >> THEN << >> ELSE Head(seqs) \o Flatten(Tail(seqs))

\* Mutant: one subscription per rule, for its first condition.
Watches_first_condition(script) ==
    [r \in 1..Len(script.rules) |->
        [rule_index |-> r - 1, condition_index |-> 0,
         source |-> script.rules[r].conditions[1].source,
         range |-> script.rules[r].conditions[1].range]]

\* Mutant: the subscriptions carry positions counted from 1.
Watches_one_based(script) ==
    Flatten([r \in 1..Len(script.rules) |->
               [c \in 1..Len(script.rules[r].conditions) |->
                  [rule_index |-> r, condition_index |-> c,
                   source |-> script.rules[r].conditions[c].source,
                   range |-> script.rules[r].conditions[c].range]]])

Watches(script) ==
    Flatten([r \in 1..Len(script.rules) |->
               [c \in 1..Len(script.rules[r].conditions) |->
                  [rule_index |-> r - 1, condition_index |-> c - 1,
                   source |-> script.rules[r].conditions[c].source,
                   range |-> script.rules[r].conditions[c].range]]])

\* HashMap::insert and HashMap::remove on per_getter.
insert(per_getter, id, is_met) ==
    [x \in DOMAIN per_getter \cup {id} |-> IF x = id THEN is_met ELSE per_getter[x]]
remove(per_getter, id) == [x \in DOMAIN per_getter \ {id} |-> per_getter[x]]

\* Mutant: only the getter of the event is looked at.
some_getter_is_met_last(getter_is_met, per_getter) == getter_is_met

\* 1. The match is met iff any of the getters meets the condition.
some_getter_is_met(getter_is_met, per_getter) ==
    getter_is_met \/ \E x \in DOMAIN per_getter : per_getter[x]

\* 2. The truth of the rule, as the worker computes it from its conditions.
condition_is_met(per_condition) ==
    \E i \in 1..Len(per_condition) : per_condition[i].match_is_met

\* Mutant: fires on every change of the truth of the rule.
Fires_any_edge(condition_was_met, is_met) == condition_was_met # is_met

\* Mutant: fires whenever the rule is met.
Fires_level(condition_was_met, is_met) == is_met

\* 3. Was the condition not met, and is it now met?
Fires(condition_was_met, is_met) == ~condition_was_met /\ is_met

\* Mutant: the removal re-evaluates the rule, and a condition with no getter
\* left counts as met.
OnGetterRemoved_reeval(rule_state, c, id) ==
    LET per_getter == remove(rule_state.per_condition[c].per_getter, id)
        per_condition == [rule_state.per_condition EXCEPT
                            ![c].per_getter = per_getter,
                            ![c].match_is_met = \A x \in DOMAIN per_getter : per_getter[x]]
    IN [rule_is_met |-> condition_is_met(per_condition), per_condition |-> per_condition]

\* The handler of GetterRemoved.
OnGetterRemoved(rule_state, c, id) ==
    [rule_state EXCEPT !.per_condition[c].per_getter = remove(@, id)]

\* The handler of GetterAdded.
OnGetterAdded(rule_state, c, id) ==
    [rule_state EXCEPT !.per_condition[c].per_getter = insert(@, id, FALSE)]

\* The handler of EnterRange and ExitRange, up to the swap of rule_is_met.
OnValue(rule_state, c, id, value) ==
    LET getter_is_met == contains(rule_state.per_condition[c].range, value)
        per_getter == insert(rule_state.per_condition[c].per_getter, id, getter_is_met)
        per_condition == [rule_state.per_condition EXCEPT
                            ![c].per_getter = per_getter,
                            ![c].match_is_met = some_getter_is_met(getter_is_met, per_getter)]
    IN [rule_is_met |-> condition_is_met(per_condition), per_condition |-> per_condition]

\* Mutant: the tag of a value event is trusted: EnterRange records the getter
\* as in range and ExitRange as out of range.
OnUpdate_trusts_tag(rule_state, msg) ==
    LET c == msg.condition_index + 1 IN
    CASE msg.event.kind = "InitializationError" -> rule_state
      [] msg.event.kind = "GetterRemoved" -> OnGetterRemoved(rule_state, c, msg.event.id)
      [] msg.event.kind = "GetterAdded" -> OnGetterAdded(rule_state, c, msg.event.id)
      [] msg.event.kind \in {"EnterRange", "ExitRange"} ->
            LET getter_is_met == msg.event.kind = "EnterRange"
                per_getter == insert(rule_state.per_condition[c].per_getter, msg.event.id,
                                     getter_is_met)
                per_condition == [rule_state.per_condition EXCEPT
                                    ![c].per_getter = per_getter,
                                    ![c].match_is_met = some_getter_is_met(getter_is_met, per_getter)]
            IN [rule_is_met |-> condition_is_met(per_condition), per_condition |-> per_condition]

\* The state of the rule after an Update message.
OnUpdate(rule_state, msg) ==
    LET c == msg.condition_index + 1 IN
    CASE msg.event.kind = "InitializationError" -> rule_state
      [] msg.event.kind = "GetterRemoved" -> OnGetterRemoved(rule_state, c, msg.event.id)
      [] msg.event.kind = "GetterAdded" -> OnGetterAdded(rule_state, c, msg.event.id)
      [] msg.event.kind \in {"EnterRange", "ExitRange"} ->
            OnValue(rule_state, c, msg.event.id, msg.event.value)

\* Mutant: the statements are dispatched last first.
Dispatch_reversed(rule, rule_index) ==
    [i \in 1..Len(rule.execute) |->
        Sent(rule_index, Len(rule.execute) - i, eval(rule.execute[Len(rule.execute) - i + 1]))]

\* Mutant: the dispatch of a rule ends at the first statement that an actuator refuses.
Dispatch_until_error(rule, rule_index) ==
    LET refused == {i \in 1..Len(rule.execute) :
                      \E result \in eval(rule.execute[i]) : result.result # "Ok"}
        last == IF refused = {} THEN Len(rule.execute)
                ELSE CHOOSE i \in refused : \A j \in refused : i <= j
    IN [i \in 1..last |-> Sent(rule_index, i - 1, eval(rule.execute[i]))]

\* The Sent events of one firing: every statement of the rule, in order.
Dispatch(rule, rule_index) ==
    [i \in 1..Len(rule.execute) |-> Sent(rule_index, i - 1, eval(rule.execute[i]))]

\* Mutant: an InitializationError is not reported.
Emitted_no_channel_error(rule, rule_state, msg) ==
    CASE msg.event.kind \in {"EnterRange", "ExitRange"} ->
            IF Fires(rule_state.rule_is_met, OnUpdate(rule_state, msg).rule_is_met)
            THEN Dispatch(rule, msg.rule_index)
            ELSE << >>
      [] OTHER -> << >>

\* What the worker sends to its sink while it handles an Update message.
Emitted(rule, rule_state, msg) ==
    CASE msg.event.kind = "InitializationError" -> << ChannelError(msg.event.id) >>
      [] msg.event.kind \in {"EnterRange", "ExitRange"} ->
            IF Fires(rule_state.rule_is_met, OnUpdate(rule_state, msg).rule_is_met)
            THEN Dispatch(rule, msg.rule_index)
            ELSE << >>
      [] OTHER -> << >>

\* ------------------------------------------------------------------- state
Calls == 1..MaxStarts
StopCalls == 1..MaxStops

VARIABLES
    budget,          \* the budget of this behaviour
    command_sender,  \* Execution.command_sender: 0 is None, k the sender created by call k
    ctl_pc,          \* the client: "idle", "start_wait" inside start at rx_init.recv(),
                     \*   or "dropped" once it has dropped the controller
    ncalls,          \* calls to start so far; call k is the k-th
    nstops,          \* calls to stop so far
    nevents,         \* watch events delivered so far
    script_of,       \* the script passed to call k, as the client wrote it
    w_pc,            \* the thread spawned by call k: "none", "spawned", "setup",
                     \*   "running", "stopping", "exited"
    inbox,           \* the channel (tx, rx) of call k: the messages not yet received
    per_rule,        \* the local per_rule of ExecutionTask::run
    witnesses,       \* the local witnesses of ExecutionTask::run
    sink,            \* what on_event of call k has received, oldest first
    rx_init,         \* the one-time channel of call k: "none" or the result sent
    start_result,    \* what call k returned: "none" while it has not returned
    cb_calls,        \* the results passed to the callback of the j-th stop, oldest first
    probe            \* a call to the operations on ranges: the range, the value, what
                     \*   was called so far and what it returned

vars == << budget, command_sender, ctl_pc, ncalls, nstops, nevents, script_of, w_pc, inbox,
           per_rule, witnesses, sink, rx_init, start_result, cb_calls, probe >>

\* The compiled script of the worker of call k.
Script(k) == compile(script_of[k]).node

\* The receiver of the channel of call k lives from start until its thread ends.
RxAlive(k) == w_pc[k] \in {"spawned", "setup", "running", "stopping"}

\* A call to the operations on ranges, before anything was called.
Probe(range, value) ==
    [range |-> range, value |-> value, called |-> {},
     contains |-> FALSE, get_type |-> [ok |-> FALSE, typ |-> "NoType"]]

\* The state after Execution::new, with a budget for the behaviour and a call
\* to the operations on ranges.
InitOf(b, p) ==
    /\ budget = b
    /\ probe = p
    /\ command_sender = 0
    /\ ctl_pc = "idle"
    /\ ncalls = 0
    /\ nstops = 0
    /\ nevents = 0
    /\ script_of = [k \in Calls |-> Scripts.empty]
    /\ w_pc = [k \in Calls |-> "none"]
    /\ inbox = [k \in Calls |-> << >>]
    /\ per_rule = [k \in Calls |-> << >>]
    /\ witnesses = [k \in Calls |-> << >>]
    /\ sink = [k \in Calls |-> << >>]
    /\ rx_init = [k \in Calls |-> "none"]
    /\ start_result = [k \in Calls |-> "none"]
    /\ cb_calls = [j \in StopCalls |-> << >>]

InitWith(b) == InitOf(b, Probe(AnyRange, NoValue))

Init == \E b \in Budgets : InitWith(b)

\* ------------------------------------------------------------ the controller
\* Mutant: the rejected call forgets the command channel of the running worker.
start_forgets_sender(script) ==
    /\ ctl_pc = "idle"
    /\ ncalls < budget.starts
    /\ LET k == ncalls + 1 IN
       /\ ncalls' = k
       /\ script_of' = [script_of EXCEPT ![k] = script]
       /\ IF command_sender # 0
          THEN /\ sink' = [sink EXCEPT ![k] = Append(@, Starting("AlreadyRunning"))]
               /\ start_result' = [start_result EXCEPT ![k] = "AlreadyRunning"]
               /\ command_sender' = 0
               /\ UNCHANGED << probe, budget, ctl_pc, w_pc >>
          ELSE /\ command_sender' = k
               /\ w_pc' = [w_pc EXCEPT ![k] = "spawned"]
               /\ ctl_pc' = "start_wait"
               /\ UNCHANGED << sink, start_result >>
    /\ UNCHANGED << probe, budget, nstops, nevents, inbox, per_rule, witnesses, rx_init, cb_calls >>

\* Execution::start, up to the return of the rejected call or to rx_init.recv().
start(script) ==
    /\ ctl_pc = "idle"
    /\ ncalls < budget.starts
    /\ LET k == ncalls + 1 IN
       /\ ncalls' = k
       /\ script_of' = [script_of EXCEPT ![k] = script]
       /\ IF command_sender # 0
          THEN /\ sink' = [sink EXCEPT ![k] = Append(@, Starting("AlreadyRunning"))]
               /\ start_result' = [start_result EXCEPT ![k] = "AlreadyRunning"]
               /\ UNCHANGED << probe, budget, command_sender, ctl_pc, w_pc >>
          ELSE /\ command_sender' = k
               /\ w_pc' = [w_pc EXCEPT ![k] = "spawned"]
               /\ ctl_pc' = "start_wait"
               /\ UNCHANGED << sink, start_result >>
    /\ UNCHANGED << probe, budget, nstops, nevents, inbox, per_rule, witnesses, rx_init, cb_calls >>

\* Mutant: start returns Ok as soon as the thread has answered.
start_return_ok ==
    /\ ctl_pc = "start_wait"
    /\ rx_init[ncalls] # "none"
    /\ start_result' = [start_result EXCEPT ![ncalls] = "Ok"]
    /\ ctl_pc' = "idle"
    /\ UNCHANGED << probe, budget, command_sender, ncalls, nstops, nevents, script_of, w_pc, inbox,
                    per_rule, witnesses, sink, rx_init, cb_calls >>

\* Execution::start, from rx_init.recv() to its return.
start_return ==
    /\ ctl_pc = "start_wait"
    /\ rx_init[ncalls] # "none"
    /\ start_result' = [start_result EXCEPT ![ncalls] = rx_init[ncalls]]
    /\ ctl_pc' = "idle"
    /\ UNCHANGED << probe, budget, command_sender, ncalls, nstops, nevents, script_of, w_pc, inbox,
                    per_rule, witnesses, sink, rx_init, cb_calls >>

\* Mutant: stop does not reset command_sender.
stop_keeps_sender ==
    /\ ctl_pc = "idle"
    /\ nstops < budget.stops
    /\ LET j == nstops + 1 IN
       /\ nstops' = j
       /\ IF command_sender = 0
          THEN /\ cb_calls' = [cb_calls EXCEPT ![j] = Append(@, "NotRunning")]
               /\ UNCHANGED inbox
          ELSE /\ inbox' = IF RxAlive(command_sender)
                           THEN [inbox EXCEPT ![command_sender] = Append(@, Stop(j))]
                           ELSE inbox
               /\ UNCHANGED cb_calls
    /\ UNCHANGED << probe, budget, command_sender, ctl_pc, ncalls, nevents, script_of, w_pc, per_rule,
                    witnesses, sink, rx_init, start_result >>

\* Execution::stop
stop ==
    /\ ctl_pc = "idle"
    /\ nstops < budget.stops
    /\ LET j == nstops + 1 IN
       /\ nstops' = j
       /\ IF command_sender = 0
          THEN /\ cb_calls' = [cb_calls EXCEPT ![j] = Append(@, "NotRunning")]
               /\ UNCHANGED inbox
          ELSE /\ inbox' = IF RxAlive(command_sender)
                           THEN [inbox EXCEPT ![command_sender] = Append(@, Stop(j))]
                           ELSE inbox
               /\ UNCHANGED cb_calls
    /\ command_sender' = 0
    /\ UNCHANGED << probe, budget, ctl_pc, ncalls, nevents, script_of, w_pc, per_rule, witnesses,
                    sink, rx_init, start_result >>

\* Mutant: the controller is dropped without a call to stop.
drop_silent ==
    /\ ctl_pc = "idle"
    /\ nstops < budget.stops
    /\ nstops' = nstops + 1
    /\ command_sender' = 0
    /\ ctl_pc' = "dropped"
    /\ UNCHANGED << probe, budget, ncalls, nevents, script_of, w_pc, inbox, per_rule, witnesses,
                    sink, rx_init, start_result, cb_calls >>

\* Drop for Execution: a call to stop with a callback that ignores its
\* result, after which the controller is gone.  The call counts as the j-th
\* call to stop.
drop ==
    /\ ctl_pc = "idle"
    /\ nstops < budget.stops
    /\ LET j == nstops + 1 IN
       /\ nstops' = j
       /\ IF command_sender = 0
          THEN /\ cb_calls' = [cb_calls EXCEPT ![j] = Append(@, "NotRunning")]
               /\ UNCHANGED inbox
          ELSE /\ inbox' = IF RxAlive(command_sender)
                           THEN [inbox EXCEPT ![command_sender] = Append(@, Stop(j))]
                           ELSE inbox
               /\ UNCHANGED cb_calls
    /\ command_sender' = 0
    /\ ctl_pc' = "dropped"
    /\ UNCHANGED << probe, budget, ncalls, nevents, script_of, w_pc, per_rule, witnesses,
                    sink, rx_init, start_result >>

\* ---------------------------------------------------------------- the worker
\* Mutant: a compilation error is reported to the caller of start only.
task_new_silent(k) ==
    /\ w_pc[k] = "spawned"
    /\ LET result == compile(script_of[k]).err IN
       /\ sink' = [sink EXCEPT ![k] = IF result = "Ok" THEN Append(@, Starting(result)) ELSE @]
       /\ rx_init' = [rx_init EXCEPT ![k] = result]
       /\ w_pc' = [w_pc EXCEPT ![k] = IF result = "Ok" THEN "setup" ELSE "exited"]
    /\ UNCHANGED << probe, budget, command_sender, ctl_pc, ncalls, nstops, nevents, script_of, inbox,
                    per_rule, witnesses, start_result, cb_calls >>

\* Mutant: the thread runs the task whether or not the script compiled.
task_new_runs_anyway(k) ==
    /\ w_pc[k] = "spawned"
    /\ LET result == compile(script_of[k]).err IN
       /\ sink' = [sink EXCEPT ![k] = Append(@, Starting(result))]
       /\ rx_init' = [rx_init EXCEPT ![k] = result]
       /\ w_pc' = [w_pc EXCEPT ![k] = "setup"]
    /\ UNCHANGED << probe, budget, command_sender, ctl_pc, ncalls, nstops, nevents, script_of, inbox,
                    per_rule, witnesses, start_result, cb_calls >>

\* The spawned thread: ExecutionTask::new, the Starting event and tx_init.
task_new(k) ==
    /\ w_pc[k] = "spawned"
    /\ LET result == compile(script_of[k]).err IN
       /\ sink' = [sink EXCEPT ![k] = Append(@, Starting(result))]
       /\ rx_init' = [rx_init EXCEPT ![k] = result]
       /\ w_pc' = [w_pc EXCEPT ![k] = IF result = "Ok" THEN "setup" ELSE "exited"]
    /\ UNCHANGED << probe, budget, command_sender, ctl_pc, ncalls, nstops, nevents, script_of, inbox,
                    per_rule, witnesses, start_result, cb_calls >>

\* ExecutionTask::run, before its loop: the subscriptions and the state of the rules.
run_setup(k) ==
    /\ w_pc[k] = "setup"
    /\ witnesses' = [witnesses EXCEPT ![k] = Watches(Script(k))]
    /\ per_rule' = [per_rule EXCEPT ![k] = PerRule0(Script(k))]
    /\ w_pc' = [w_pc EXCEPT ![k] = "running"]
    /\ UNCHANGED << probe, budget, command_sender, ctl_pc, ncalls, nstops, nevents, script_of, inbox,
                    sink, rx_init, start_result, cb_calls >>

\* Mutant: the worker goes on receiving after it has called the callback of a stop.
run_update_draining(k) ==
    /\ w_pc[k] \in {"running", "stopping"}
    /\ inbox[k] # << >>
    /\ Head(inbox[k]).op = "Update"
    /\ LET msg == Head(inbox[k])
           r == msg.rule_index + 1
       IN /\ per_rule' = [per_rule EXCEPT ![k][r] = OnUpdate(@, msg)]
          /\ sink' = [sink EXCEPT ![k] = @ \o Emitted(Script(k).rules[r], per_rule[k][r], msg)]
    /\ inbox' = [inbox EXCEPT ![k] = Tail(@)]
    /\ UNCHANGED << probe, budget, command_sender, ctl_pc, ncalls, nstops, nevents, script_of, w_pc,
                    witnesses, rx_init, start_result, cb_calls >>

\* Mutant: an Update message resets the state of the rules it is not about.
run_update_resets_others(k) ==
    /\ w_pc[k] = "running"
    /\ inbox[k] # << >>
    /\ Head(inbox[k]).op = "Update"
    /\ LET msg == Head(inbox[k])
           r == msg.rule_index + 1
       IN /\ per_rule' = [per_rule EXCEPT ![k] =
                            [i \in DOMAIN @ |-> IF i = r THEN OnUpdate(@[i], msg)
                                                ELSE RuleState0(Script(k).rules[i])]]
          /\ sink' = [sink EXCEPT ![k] = @ \o Emitted(Script(k).rules[r], per_rule[k][r], msg)]
    /\ inbox' = [inbox EXCEPT ![k] = Tail(@)]
    /\ UNCHANGED << probe, budget, command_sender, ctl_pc, ncalls, nstops, nevents, script_of, w_pc,
                    witnesses, rx_init, start_result, cb_calls >>

\* One iteration of the loop of ExecutionTask::run on an Update message.
run_update(k) ==
    /\ w_pc[k] = "running"
    /\ inbox[k] # << >>
    /\ Head(inbox[k]).op = "Update"
    /\ LET msg == Head(inbox[k])
           r == msg.rule_index + 1
       IN /\ per_rule' = [per_rule EXCEPT ![k][r] = OnUpdate(@, msg)]
          /\ sink' = [sink EXCEPT ![k] = @ \o Emitted(Script(k).rules[r], per_rule[k][r], msg)]
    /\ inbox' = [inbox EXCEPT ![k] = Tail(@)]
    /\ UNCHANGED << probe, budget, command_sender, ctl_pc, ncalls, nstops, nevents, script_of, w_pc,
                    witnesses, rx_init, start_result, cb_calls >>

\* Mutant: the callback is called but the loop is not left.
run_stop_no_return(k) ==
    /\ w_pc[k] = "running"
    /\ inbox[k] # << >>
    /\ Head(inbox[k]).op = "Stop"
    /\ cb_calls' = [cb_calls EXCEPT ![Head(inbox[k]).cb] = Append(@, "Ok")]
    /\ inbox' = [inbox EXCEPT ![k] = Tail(@)]
    /\ UNCHANGED << probe, budget, command_sender, ctl_pc, ncalls, nstops, nevents, script_of, w_pc,
                    per_rule, witnesses, sink, rx_init, start_result >>

\* Mutant: a Stop message is handled ahead of the messages sent before it.
run_stop_jumps_queue(k) ==
    /\ w_pc[k] = "running"
    /\ \E i \in 1..Len(inbox[k]) :
          /\ inbox[k][i].op = "Stop"
          /\ cb_calls' = [cb_calls EXCEPT ![inbox[k][i].cb] = Append(@, "Ok")]
          /\ inbox' = [inbox EXCEPT ![k] = SubSeq(@, i + 1, Len(@))]
    /\ w_pc' = [w_pc EXCEPT ![k] = "stopping"]
    /\ UNCHANGED << probe, budget, command_sender, ctl_pc, ncalls, nstops, nevents, script_of, per_rule,
                    witnesses, sink, rx_init, start_result >>

\* The loop of ExecutionTask::run on a Stop message, up to the call of the callback.
run_stop(k) ==
    /\ w_pc[k] = "running"
    /\ inbox[k] # << >>
    /\ Head(inbox[k]).op = "Stop"
    /\ cb_calls' = [cb_calls EXCEPT ![Head(inbox[k]).cb] = Append(@, "Ok")]
    /\ inbox' = [inbox EXCEPT ![k] = Tail(@)]
    /\ w_pc' = [w_pc EXCEPT ![k] = "stopping"]
    /\ UNCHANGED << probe, budget, command_sender, ctl_pc, ncalls, nstops, nevents, script_of, per_rule,
                    witnesses, sink, rx_init, start_result >>

\* Mutant: the worker returns without releasing its subscriptions.
run_return_leaks(k) ==
    /\ w_pc[k] = "stopping"
    /\ w_pc' = [w_pc EXCEPT ![k] = "exited"]
    /\ per_rule' = [per_rule EXCEPT ![k] = << >>]
    /\ inbox' = [inbox EXCEPT ![k] = << >>]
    /\ UNCHANGED << probe, budget, command_sender, ctl_pc, ncalls, nstops, nevents, script_of, sink,
                    witnesses, rx_init, start_result, cb_calls >>

\* The return of ExecutionTask::run after the callback: the locals and the channel are dropped.
run_return(k) ==
    /\ w_pc[k] = "stopping"
    /\ w_pc' = [w_pc EXCEPT ![k] = "exited"]
    /\ witnesses' = [witnesses EXCEPT ![k] = << >>]
    /\ per_rule' = [per_rule EXCEPT ![k] = << >>]
    /\ inbox' = [inbox EXCEPT ![k] = << >>]
    /\ UNCHANGED << probe, budget, command_sender, ctl_pc, ncalls, nstops, nevents, script_of, sink,
                    rx_init, start_result, cb_calls >>

\* ------------------------------------------------------------ the Device API
\* The sink of a subscription: a watch event about a getter that the source
\* selects is mapped to an Update message and sent to the inbox.
watch_event(k) ==
    /\ nevents < budget.events
    /\ \E i \in 1..Len(witnesses[k]) :
       \E id \in DOMAIN Getters :
          /\ \E selector \in witnesses[k][i].source : Matches(selector, Getters, id)
          /\ \E event \in WatchEvents(id) \cup (IF budget.misrouted THEN MisroutedEvents(id) ELSE {}) :
                inbox' = [inbox EXCEPT ![k] =
                            Append(@, Update(event, witnesses[k][i].rule_index,
                                             witnesses[k][i].condition_index))]
    /\ nevents' = nevents + 1
    /\ UNCHANGED << probe, budget, command_sender, ctl_pc, ncalls, nstops, script_of, w_pc, per_rule,
                    witnesses, sink, rx_init, start_result, cb_calls >>

Next ==
    \/ \E name \in ScriptNames : start(Scripts[name])
    \/ start_return
    \/ stop
    \/ drop
    \/ \E k \in Calls : task_new(k)
    \/ \E k \in Calls : run_setup(k)
    \/ \E k \in Calls : run_update(k)
    \/ \E k \in Calls : run_stop(k)
    \/ \E k \in Calls : run_return(k)
    \/ \E k \in Calls : watch_event(k)

Spec == Init /\ [][Next]_vars

\* The steps of the thread spawned by call k.
worker(k) == task_new(k) \/ run_setup(k) \/ run_update(k) \/ run_stop(k) \/ run_return(k)

\* The worker threads are scheduled: a worker that can take a step takes it.
Fairness == \A k \in Calls : WF_vars(worker(k))

\* The fair behaviours of one execution: one call to start, within a budget
\* small enough for the fair behaviours to be explored.
FairInit == InitWith([starts |-> 1, stops |-> MaxStops, events |-> 1, misrouted |-> FALSE])

FairSpec == FairInit /\ [][Next]_vars /\ Fairness

\* One execution of any script a client may write, well-formed or not.
CompileInit == InitWith([starts |-> 1, stops |-> 1, events |-> 1, misrouted |-> FALSE])

CompileNext ==
    \/ ctl_pc = "idle" /\ ncalls < budget.starts /\ \E script \in CompileScripts : start(script)
    \/ start_return
    \/ stop
    \/ drop
    \/ \E k \in Calls : task_new(k)
    \/ \E k \in Calls : run_setup(k)
    \/ \E k \in Calls : run_update(k)
    \/ \E k \in Calls : run_stop(k)
    \/ \E k \in Calls : run_return(k)
    \/ \E k \in Calls : watch_event(k)

CompileSpec == CompileInit /\ [][CompileNext]_vars

\* One execution and one stop, with a Device API that also reports values of
\* another type than that of the sensor.
MisroutedInit ==
    InitWith([starts |-> 1, stops |-> 1, events |-> MaxStopEvents, misrouted |-> TRUE])

MisroutedSpec == MisroutedInit /\ [][Next]_vars

\* One execution, never stopped, of a script of two rules: the rule of "and",
\* of two conditions, and the rule of "or".
TwoRules == [rules |-> Scripts.and.rules \o Scripts.or.rules]

FrameInit == InitWith([starts |-> 1, stops |-> 0, events |-> MaxStopEvents, misrouted |-> FALSE])

FrameNext ==
    \/ start(TwoRules)
    \/ start_return
    \/ \E k \in Calls : task_new(k)
    \/ \E k \in Calls : run_setup(k)
    \/ \E k \in Calls : run_update(k)
    \/ \E k \in Calls : watch_event(k)

FrameSpec == FrameInit /\ [][FrameNext]_vars

\* ----------------------------------------------- the operations on ranges
\* The frame of a call to an operation on ranges.
ProbeFrame ==
    UNCHANGED << budget, command_sender, ctl_pc, ncalls, nstops, nevents, script_of, w_pc, inbox,
                 per_rule, witnesses, sink, rx_init, start_result, cb_calls >>

\* A call to Range::contains.
range_contains ==
    /\ "contains" \notin probe.called
    /\ probe' = [probe EXCEPT !.called = @ \cup {"contains"},
                              !.contains = contains(probe.range, probe.value)]
    /\ ProbeFrame

\* A call to Range::get_type.
range_get_type ==
    /\ "get_type" \notin probe.called
    /\ probe' = [probe EXCEPT !.called = @ \cup {"get_type"},
                              !.get_type = get_type(probe.range)]
    /\ ProbeFrame

\* Any range and any value, and the calls to the operations on them.
RangeInit ==
    \E range \in ProbeRanges : \E value \in ProbeValues :
        InitOf([starts |-> 0, stops |-> 0, events |-> 0, misrouted |-> FALSE],
               Probe(range, value))

RangeNext == range_contains \/ range_get_type

RangeSpec == RangeInit /\ [][RangeNext]_vars

\* ================================================================ properties
\* The events call k's sink received in this step.
NewEvents(k) == SubSeq(sink'[k], Len(sink[k]) + 1, Len(sink'[k]))

\* The worker of call k receives the head of its inbox in this step.
Receives(k) == w_pc[k] = "running" /\ inbox[k] # << >> /\ inbox'[k] = Tail(inbox[k])

\* The worker of call k handles a message of one of these kinds in this step.
Handles(k, kinds) ==
    Receives(k) /\ Head(inbox[k]).op = "Update" /\ Head(inbox[k]).event.kind \in kinds

\* Some getter recorded for the condition has its last value in range.
SomeGetterInRange(condition_state) ==
    \E id \in DOMAIN condition_state.per_getter : condition_state.per_getter[id]

\* The number of Sent events of statement 0, that is the number of firings.
Firings(events) ==
    Cardinality({i \in 1..Len(events) : events[i].ev = "Sent" /\ events[i].statement_index = 0})

\* C1: a Sent event of rule r is emitted only in a step that changes the
\* stored rule_is_met of r from false to true.
C1_RisingEdgeOnly ==
    [][\A k \in Calls :
         \A i \in 1..Len(NewEvents(k)) :
            NewEvents(k)[i].ev = "Sent" =>
               /\ Handles(k, {"EnterRange", "ExitRange"})
               /\ ~per_rule[k][NewEvents(k)[i].rule_index + 1].rule_is_met
               /\ per_rule'[k][NewEvents(k)[i].rule_index + 1].rule_is_met]_vars

\* Three events were handled, the rule is met and it has fired once.
C1_Witness ==
    \E k \in Calls :
        /\ w_pc[k] = "running" /\ inbox[k] = << >> /\ nevents = 3
        /\ per_rule[k][1].rule_is_met
        /\ \A c \in 1..Len(per_rule[k][1].per_condition) :
              DOMAIN per_rule[k][1].per_condition[c].per_getter # {}
        /\ Firings(sink[k]) = 1

\* C2: the stored rule_is_met of every rule is the AND over its conditions of
\* the OR over the recorded getters of "the last value is in range".
C2_ConjunctionCorrectness ==
    \A k \in Calls :
       \A r \in 1..Len(per_rule[k]) :
          per_rule[k][r].rule_is_met =
             (\A c \in 1..Len(per_rule[k][r].per_condition) :
                 SomeGetterInRange(per_rule[k][r].per_condition[c]))

\* C3: no Sent event is emitted for a rule while one of its conditions has no
\* getter whose last value is in range.
C3_AndAcrossConditions ==
    [][\A k \in Calls :
         \A i \in 1..Len(NewEvents(k)) :
            NewEvents(k)[i].ev = "Sent" =>
               \A c \in 1..Len(per_rule'[k][NewEvents(k)[i].rule_index + 1].per_condition) :
                  SomeGetterInRange(per_rule'[k][NewEvents(k)[i].rule_index + 1].per_condition[c])]_vars

\* C4: after an EnterRange or ExitRange event for a condition, its
\* match_is_met is the OR over its recorded getters; and a rule with one
\* condition that another getter already keeps in range does not fire again
\* when a getter comes into range.
C4_OrAcrossSensors ==
    [][\A k \in Calls :
         Handles(k, {"EnterRange", "ExitRange"}) =>
            LET msg == Head(inbox[k])
                r == msg.rule_index + 1
                c == msg.condition_index + 1
                before == per_rule[k][r].per_condition
                after == per_rule'[k][r].per_condition
            IN /\ after[c].match_is_met = SomeGetterInRange(after[c])
               /\ ( /\ Len(before) = 1
                    /\ \E other \in DOMAIN before[c].per_getter \ {msg.event.id} :
                          before[c].per_getter[other]
                    /\ contains(before[c].range, msg.event.value) )
                  => sink'[k] = sink[k]]_vars

\* Both getters of the one condition are in range and the rule has fired once.
C4_Witness ==
    \E k \in Calls :
        /\ Len(per_rule[k]) = 1 /\ Len(per_rule[k][1].per_condition) = 1
        /\ DOMAIN per_rule[k][1].per_condition[1].per_getter = {"s1", "s2"}
        /\ \A id \in {"s1", "s2"} : per_rule[k][1].per_condition[1].per_getter[id]
        /\ per_rule[k][1].per_condition[1].match_is_met
        /\ Firings(sink[k]) = 1

\* C5: handling GetterRemoved never changes a rule_is_met from false to true
\* and dispatches no statement.
C5_RemovalShrinksTruth ==
    [][\A k \in Calls :
         Handles(k, {"GetterRemoved"}) =>
            /\ sink'[k] = sink[k]
            /\ \A r \in 1..Len(per_rule[k]) :
                  per_rule'[k][r].rule_is_met => per_rule[k][r].rule_is_met]_vars

\* The getter that made the rule fire was removed: no getter is recorded.
C5_Witness ==
    \E k \in Calls :
        /\ w_pc[k] = "running" /\ Len(per_rule[k]) = 1
        /\ per_rule[k][1].rule_is_met
        /\ \A c \in 1..Len(per_rule[k][1].per_condition) :
              DOMAIN per_rule[k][1].per_condition[c].per_getter = {}
        /\ Firings(sink[k]) = 1

\* C6: when the worker handles an EnterRange that is followed in the inbox by
\* the same EnterRange, handling the second one changes nothing in the truth
\* state and fires nothing.
C6_SameEventTwice ==
    [][\A k \in Calls :
         ( /\ Handles(k, {"EnterRange"})
           /\ Len(inbox[k]) >= 2
           /\ inbox[k][2] = inbox[k][1] ) =>
            LET msg == Head(inbox[k])
                r == msg.rule_index + 1
            IN /\ OnUpdate(per_rule'[k][r], msg) = per_rule'[k][r]
               /\ Emitted(Script(k).rules[r], per_rule'[k][r], msg) = << >>]_vars

\* The worker is about to handle two identical EnterRange events in
\* succession, the first of which fires the rule.
C6_Witness ==
    \E k \in Calls :
        /\ w_pc[k] = "running" /\ Len(inbox[k]) = 2 /\ inbox[k][1] = inbox[k][2]
        /\ Head(inbox[k]).op = "Update" /\ Head(inbox[k]).event.kind = "EnterRange"
        /\ LET msg == Head(inbox[k])
               r == msg.rule_index + 1
           IN /\ ~per_rule[k][r].rule_is_met
              /\ Emitted(Script(k).rules[r], per_rule[k][r], msg) # << >>

\* C7: the Sent events of a firing are emitted in one step of the worker, on
\* one inbox message: one per statement of the rule, in the order of the
\* statements, with the index of the rule and statement_index 0, 1, ..., n-1.
C7_DispatchInOrder ==
    [][\A k \in Calls :
         (\E i \in 1..Len(NewEvents(k)) : NewEvents(k)[i].ev = "Sent") =>
            LET new == NewEvents(k)
                msg == Head(inbox[k])
                execute == Script(k).rules[msg.rule_index + 1].execute
            IN /\ Receives(k)
               /\ SubSeq(sink'[k], 1, Len(sink[k])) = sink[k]
               /\ Len(new) = Len(execute)
               /\ \A i \in 1..Len(new) :
                     /\ new[i].ev = "Sent"
                     /\ new[i].rule_index = msg.rule_index
                     /\ new[i].statement_index = i - 1
                     /\ new[i].results = eval(execute[i])]_vars

\* A rule with two statements has fired: Sent 0 then Sent 1 end the sink.
C7_Witness ==
    \E k \in Calls :
        /\ Len(sink[k]) >= 3
        /\ sink[k][Len(sink[k]) - 1].ev = "Sent" /\ sink[k][Len(sink[k]) - 1].statement_index = 0
        /\ sink[k][Len(sink[k])].ev = "Sent" /\ sink[k][Len(sink[k])].statement_index = 1

\* The j-th stop has sent its Stop message to a worker that compiled its script.
StopPending(j) ==
    \E k \in Calls :
        /\ w_pc[k] \in {"setup", "running"}
        /\ \E i \in 1..Len(inbox[k]) : inbox[k][i].op = "Stop" /\ inbox[k][i].cb = j

\* The callback of a stop is called at most once.
CalledAtMostOnce == \A j \in StopCalls : Len(cb_calls[j]) <= 1

\* A worker that has called the callback of a stop handles no message and
\* emits no event.
NothingAfterCallback ==
    \A k \in Calls :
        w_pc[k] \in {"stopping", "exited"} =>
           /\ sink'[k] = sink[k]
           /\ w_pc'[k] \in {"stopping", "exited"}
           /\ per_rule'[k] \in {per_rule[k], << >>}

\* C8 as amended: a stop on a running controller eventually makes the worker
\* call the callback, once and with Ok; the worker then handles no message;
\* the worker calls the callback as its last act before it returns, while the
\* task and its subscriptions are still alive.
C8_StopCallback ==
    /\ []CalledAtMostOnce
    /\ [][NothingAfterCallback]_vars
    /\ [][\A k \in Calls :
            (Receives(k) /\ Head(inbox[k]).op = "Stop") =>
               /\ cb_calls'[Head(inbox[k]).cb] = << "Ok" >>
               /\ w_pc'[k] = "stopping"
               /\ witnesses'[k] = witnesses[k]]_vars
    /\ \A j \in StopCalls : StopPending(j) ~> (cb_calls[j] = << "Ok" >>)

\* The worker has called the callback of a stop that was queued behind a watch
\* event, and has not returned yet.
C8_Witness ==
    \E k \in Calls :
        /\ w_pc[k] = "stopping" /\ start_result[k] = "Ok"
        /\ witnesses[k] # << >>
        /\ nevents >= 1 /\ inbox[k] = << >>
        /\ \E j \in StopCalls : cb_calls[j] = << "Ok" >>

\* C8 as stated: ... and the callback fires only once the task has exited.
C8_CallbackAfterExit ==
    /\ []CalledAtMostOnce
    /\ [][NothingAfterCallback]_vars
    /\ [][\A k \in Calls :
            (Receives(k) /\ Head(inbox[k]).op = "Stop") =>
               /\ cb_calls'[Head(inbox[k]).cb] = << "Ok" >>
               /\ w_pc'[k] = "exited"
               /\ witnesses'[k] = << >>]_vars
    /\ \A j \in StopCalls : StopPending(j) ~> (cb_calls[j] = << "Ok" >>)

\* C9: the sink of every call to start receives one Starting event, before
\* any other event and before the call returns.
C9_StartingFirst ==
    \A k \in Calls :
        /\ sink[k] # << >> =>
              /\ sink[k][1].ev = "Starting"
              /\ \A i \in 2..Len(sink[k]) : sink[k][i].ev # "Starting"
        /\ start_result[k] # "none" => sink[k] # << >>
        /\ k > ncalls => sink[k] = << >>

\* A first start succeeded and its rule has fired; a second start was rejected.
C9_Witness ==
    /\ ncalls = 2
    /\ start_result[1] = "Ok" /\ Len(sink[1]) >= 2 /\ sink[1][2].ev = "Sent"
    /\ start_result[2] = "AlreadyRunning" /\ sink[2] = << Starting("AlreadyRunning") >>

\* C10: the sink of an execution that started and was stopped has received
\* one Stopped event, with Ok, and it is its last event.
C10_StoppedLast ==
    \A k \in Calls :
        (rx_init[k] = "Ok" /\ w_pc[k] = "exited") =>
           /\ sink[k][Len(sink[k])].ev = "Stopped"
           /\ sink[k][Len(sink[k])].result = "Ok"
           /\ Cardinality({i \in 1..Len(sink[k]) : sink[k][i].ev = "Stopped"}) = 1

\* The worker of call k has called the callback of the stop that ends it.
CallbackInvoked(k) == rx_init[k] = "Ok" /\ w_pc[k] \in {"stopping", "exited"}

\* C11: once the worker has called the callback of the stop that ends it, the
\* sink of its execution receives no further event, whatever watch events
\* are left in its inbox or are sent to it afterwards.
C11_Teardown ==
    [][\A k \in Calls : CallbackInvoked(k) => sink'[k] = sink[k]]_vars

\* The worker has called the callback and has not returned yet; a watch event
\* that would fire the rule was sent to its inbox after the Stop message.
C11_Witness ==
    \E k \in Calls :
        /\ CallbackInvoked(k) /\ w_pc[k] = "stopping"
        /\ \E j \in StopCalls : cb_calls[j] = << "Ok" >>
        /\ inbox[k] # << >> /\ Head(inbox[k]).op = "Update"
        /\ Emitted(Script(k).rules[Head(inbox[k]).rule_index + 1],
                   per_rule[k][Head(inbox[k]).rule_index + 1], Head(inbox[k])) # << >>

\* This step is a call to start, the k-th.
StartCalled(k) == ncalls = k - 1 /\ ncalls' = k

\* C12: a call to start on a controller that is running returns
\* AlreadyRunning, sends Starting(AlreadyRunning) to its own sink and to no
\* other, spawns no thread, opens no subscription, and leaves the workers,
\* their state, their inboxes and the command channel as they were.
C12_AlreadyRunning ==
    [][\A k \in Calls :
         (StartCalled(k) /\ command_sender # 0) =>
            /\ start_result'[k] = "AlreadyRunning"
            /\ sink' = [sink EXCEPT ![k] = << Starting("AlreadyRunning") >>]
            /\ command_sender' = command_sender
            /\ ctl_pc' = "idle"
            /\ UNCHANGED << w_pc, witnesses, per_rule, inbox, rx_init, cb_calls >>]_vars

\* A second start was rejected while the worker of the first, which has
\* handled a watch event, goes on running with its subscriptions.
C12_Witness ==
    /\ ncalls = 2 /\ command_sender = 1
    /\ start_result[2] = "AlreadyRunning" /\ w_pc[2] = "none"
    /\ w_pc[1] = "running" /\ witnesses[1] # << >>
    /\ \E c \in 1..Len(per_rule[1][1].per_condition) :
          DOMAIN per_rule[1][1].per_condition[c].per_getter # {}

\* This step is a call to stop, the j-th.
StopCalled(j) == nstops = j - 1 /\ nstops' = j

\* C13: a call to stop on a controller that is not running calls its callback
\* during the call, once and with NotRunning, sends no message and leaves
\* the controller not running; the callback is never called again; every
\* call to stop leaves the controller not running, so that a stop that
\* follows a stop reports NotRunning.
C13_NotRunning ==
    /\ [][\A j \in StopCalls :
            StopCalled(j) =>
               /\ command_sender' = 0
               /\ command_sender = 0 =>
                     /\ cb_calls' = [cb_calls EXCEPT ![j] = << "NotRunning" >>]
                     /\ UNCHANGED << inbox, sink, w_pc, rx_init >>]_vars
    /\ [][\A j \in StopCalls :
            cb_calls[j] = << "NotRunning" >> => cb_calls'[j] = cb_calls[j]]_vars

\* A stop ended a running execution and the stop that followed it was told
\* NotRunning.
C13_Witness ==
    /\ nstops = 2
    /\ cb_calls[1] = << "Ok" >>
    /\ cb_calls[2] = << "NotRunning" >>

\* ------------------------------------------- the rules of a well-formed script
\* The types of the values a range mentions: one type for a range that has a
\* type, none for Any, two for bounds of different types.
RangeTypes(range) ==
    CASE range.tag \in {"Leq", "Geq", "Eq"} -> {range.min.type}
      [] range.tag \in {"BetweenEq", "OutOfStrict"} -> {range.min.type, range.max.type}
      [] range.tag = "Any" -> {}

\* The range of the condition has one type, and it is the type of its kind.
WellTyped(match_) == RangeTypes(match_.range) = {KindGetType(match_.kind)}

\* The range of the condition has not exactly one type.
Untyped(match_) == Cardinality(RangeTypes(match_.range)) # 1

\* The range of the condition has one type, which is not the type of its kind.
Mismatched(match_) == ~Untyped(match_) /\ ~WellTyped(match_)

\* The conditions of a script, as (rule, condition) positions.
Conditions(script) ==
    UNION { { << r, c >> : c \in 1..Len(script.rules[r].conditions) } :
            r \in 1..Len(script.rules) }
ConditionAt(script, rc) == script.rules[rc[1]].conditions[rc[2]]

\* The script violates no rule of the compiler.
WellFormed(script) ==
    /\ Len(script.rules) > 0
    /\ \A r \in 1..Len(script.rules) :
          Len(script.rules[r].conditions) > 0 /\ Len(script.rules[r].execute) > 0
    /\ \A rc \in Conditions(script) : WellTyped(ConditionAt(script, rc))

\* Call k was made and its thread has answered on the one-time channel.
Compiled(k) == k <= ncalls /\ rx_init[k] # "none"

\* C14: a call to start that was not rejected returns what the Starting
\* event of its sink carries, the event being in the sink when the call
\* returns: Ok when the script is well-formed, an error of the compiler when
\* it is not.
C14_CompileErrorsBothWays ==
    \A k \in Calls :
        (k <= ncalls /\ start_result[k] \notin {"none", "AlreadyRunning"}) =>
           /\ sink[k] # << >>
           /\ sink[k][1] = Starting(start_result[k])
           /\ start_result[k] \in {"Ok", "NoRules", "NoStatements", "NoConditions",
                                   "InvalidRange", "KindAndRangeDoNotAgree"}
           /\ start_result[k] = "Ok" <=> WellFormed(script_of[k])

\* start has returned the error of a script whose condition is of a kind of
\* numbers with a range of booleans.
C14_Witness ==
    /\ ctl_pc = "idle"
    /\ start_result[1] = "KindAndRangeDoNotAgree"
    /\ sink[1] = << Starting("KindAndRangeDoNotAgree") >>
    /\ ~WellFormed(script_of[1])

OnlyNoStatements(script) ==
    /\ Len(script.rules) > 0
    /\ \A r \in 1..Len(script.rules) : Len(script.rules[r].conditions) > 0
    /\ \A rc \in Conditions(script) : WellTyped(ConditionAt(script, rc))
    /\ \E r \in 1..Len(script.rules) : Len(script.rules[r].execute) = 0

\* The script has rules, its conditions are well typed, and the only rule of
\* the compiler it violates is that a rule has conditions.
OnlyNoConditions(script) ==
    /\ Len(script.rules) > 0
    /\ \A r \in 1..Len(script.rules) : Len(script.rules[r].execute) > 0
    /\ \A rc \in Conditions(script) : WellTyped(ConditionAt(script, rc))
    /\ \E r \in 1..Len(script.rules) : Len(script.rules[r].conditions) = 0

OnlyUntyped(script) ==
    /\ Len(script.rules) > 0
    /\ \A r \in 1..Len(script.rules) :
          Len(script.rules[r].conditions) > 0 /\ Len(script.rules[r].execute) > 0
    /\ \A rc \in Conditions(script) :
          WellTyped(ConditionAt(script, rc)) \/ Untyped(ConditionAt(script, rc))
    /\ \E rc \in Conditions(script) : Untyped(ConditionAt(script, rc))

\* C18: a script whose violation is a condition whose range has not one
\* type, be it bounds of two types or the range Any, is answered InvalidRange.
C18_InvalidRange ==
    \A k \in Calls :
        (Compiled(k) /\ OnlyUntyped(script_of[k])) => rx_init[k] = "InvalidRange"

\* The script has rules with conditions and statements, and the only rule of
\* the compiler it violates is that the type of a range is that of the kind.
OnlyMismatched(script) ==
    /\ Len(script.rules) > 0
    /\ \A r \in 1..Len(script.rules) :
          Len(script.rules[r].conditions) > 0 /\ Len(script.rules[r].execute) > 0
    /\ \A rc \in Conditions(script) :
          WellTyped(ConditionAt(script, rc)) \/ Mismatched(ConditionAt(script, rc))
    /\ \E rc \in Conditions(script) : Mismatched(ConditionAt(script, rc))

\* C19: a script whose violation is a condition whose range has one type,
\* different from the type of its kind, is answered KindAndRangeDoNotAgree;
\* a script whose conditions all have a range of the type of their kind, and
\* that has rules, conditions and statements, is accepted.
C19_KindAndRangeDoNotAgree ==
    \A k \in Calls :
        Compiled(k) =>
           /\ OnlyMismatched(script_of[k]) => rx_init[k] = "KindAndRangeDoNotAgree"
           /\ WellFormed(script_of[k]) => rx_init[k] = "Ok"

\* A script whose second rule has a condition of a kind of numbers with a
\* range of booleans was answered KindAndRangeDoNotAgree.
C19_Witness ==
    /\ Compiled(1) /\ rx_init[1] = "KindAndRangeDoNotAgree"
    /\ OnlyMismatched(script_of[1])
    /\ Len(script_of[1].rules) = 2
    /\ WellTyped(script_of[1].rules[1].conditions[1])

\* The errors that report the violation of a condition: none for a condition
\* that is well typed; which of the two type errors reports a range without
\* a type is the matter of C18.
MatchViolations(match_) ==
    IF WellTyped(match_) THEN {}
    ELSE IF Mismatched(match_) THEN {"KindAndRangeDoNotAgree"}
    ELSE IF RangeTypes(match_.range) = {} THEN {"InvalidRange", "KindAndRangeDoNotAgree"}
    ELSE {"InvalidRange"}

\* The errors that report the first violation among the conditions of a rule.
FirstOfConditions(conditions) ==
    LET bad == {c \in 1..Len(conditions) : MatchViolations(conditions[c]) # {}} IN
    IF bad = {} THEN {}
    ELSE MatchViolations(conditions[CHOOSE c \in bad : \A d \in bad : c <= d])

\* The first violation of a rule in the order of the document: the
\* conditions, then the statements.
DocumentOrder(rule) ==
    IF Len(rule.conditions) = 0 THEN {"NoConditions"}
    ELSE IF FirstOfConditions(rule.conditions) # {} THEN FirstOfConditions(rule.conditions)
    ELSE IF Len(rule.execute) = 0 THEN {"NoStatements"}
    ELSE {}

\* The first violation of a rule in the order of the checks of the compiler:
\* that it has statements, that it has conditions, then its conditions.
CheckOrder(rule) ==
    IF Len(rule.execute) = 0 THEN {"NoStatements"}
    ELSE IF Len(rule.conditions) = 0 THEN {"NoConditions"}
    ELSE FirstOfConditions(rule.conditions)

\* The answers that report the first violation of a script, its rules taken
\* in order and the first violation of a rule being given by Order.
FirstViolation(script, Order(_)) ==
    LET bad == {r \in 1..Len(script.rules) : Order(script.rules[r]) # {}} IN
    IF Len(script.rules) = 0 THEN {"NoRules"}
    ELSE IF bad = {} THEN {"Ok"}
    ELSE Order(script.rules[CHOOSE r \in bad : \A q \in bad : r <= q])

\* C20 as amended: compile answers one error, that of the first violation in
\* the order of its checks: the rules in the order of the document and,
\* within a rule, the lack of statements before the lack of conditions and
\* before the violations of its conditions, taken in order.
C20_FirstViolation ==
    \A k \in Calls :
        Compiled(k) => rx_init[k] \in FirstViolation(script_of[k], CheckOrder)

\* A script of two rules was answered NoStatements: its first rule has a
\* condition of a kind of numbers with a range of booleans and no statement,
\* its second rule has no condition.
C20_Witness ==
    /\ Compiled(1) /\ rx_init[1] = "NoStatements"
    /\ Len(script_of[1].rules) = 2
    /\ Len(script_of[1].rules[1].execute) = 0
    /\ Len(script_of[1].rules[1].conditions) = 1
    /\ Mismatched(script_of[1].rules[1].conditions[1])
    /\ Len(script_of[1].rules[2].conditions) = 0
    /\ Len(script_of[1].rules[2].execute) > 0

\* C20 as stated: compile answers the error of the first violation in the
\* order of the document: the rules in order and, within a rule, a
\* violation in its conditions before a violation about its statements.
C20_DocumentOrder ==
    \A k \in Calls :
        Compiled(k) => rx_init[k] \in FirstViolation(script_of[k], DocumentOrder)

\* The script of call k compiled.
CompiledOk(k) == Compiled(k) /\ rx_init[k] = "Ok"

\* C21: in every script that compiled, the value of each statement is of the
\* type of the kind of the statement.
C21_StatementValueTyped ==
    \A k \in Calls :
        CompiledOk(k) =>
           \A r \in 1..Len(script_of[k].rules) :
              \A s \in 1..Len(script_of[k].rules[r].execute) :
                 script_of[k].rules[r].execute[s].value.type =
                    KindGetType(script_of[k].rules[r].execute[s].kind)

\* C22: every selector of a subscription of the worker carries the kind of
\* its condition, and every send of the worker reaches only actuators of the
\* kind of its statement.
C22_SelectorsCarryKind ==
    \A k \in Calls :
        /\ \A i \in 1..Len(witnesses[k]) :
              \A selector \in witnesses[k][i].source :
                 selector.kind =
                    script_of[k].rules[witnesses[k][i].rule_index + 1]
                                .conditions[witnesses[k][i].condition_index + 1].kind
        /\ \A i \in 1..Len(sink[k]) :
              sink[k][i].ev = "Sent" =>
                 \A result \in sink[k][i].results :
                    Setters[result.id] =
                       script_of[k].rules[sink[k][i].rule_index + 1]
                                   .execute[sink[k][i].statement_index + 1].kind

\* A statement of kind OnOff whose destination names the lamp and the fan was
\* dispatched, and it reached the lamp only.
C22_Witness ==
    \E k \in Calls :
        /\ witnesses[k] # << >>
        /\ \E i \in 1..Len(sink[k]) :
              /\ sink[k][i].ev = "Sent"
              /\ sink[k][i].results = {[id |-> "lamp", result |-> "Ok"]}
              /\ Cardinality(script_of[k].rules[sink[k][i].rule_index + 1]
                                         .execute[sink[k][i].statement_index + 1].destination) = 2

\* The ids of the services a set of selectors names.
Ids(selectors) == {selector.id : selector \in selectors}

\* C23: a script that compiled has the rules of the script as written, in the
\* same order, each with the same conditions and statements in the same
\* order, with the same ranges, kinds, values and services; the state of the
\* worker has one entry by rule and by condition, with the range as written.
C23_ShapePreserved ==
    \A k \in Calls :
        CompiledOk(k) =>
           LET written == script_of[k].rules
               compiled == Script(k).rules
           IN /\ Len(compiled) = Len(written)
              /\ \A r \in 1..Len(written) :
                    /\ Len(compiled[r].conditions) = Len(written[r].conditions)
                    /\ Len(compiled[r].execute) = Len(written[r].execute)
                    /\ \A c \in 1..Len(written[r].conditions) :
                          /\ compiled[r].conditions[c].range = written[r].conditions[c].range
                          /\ compiled[r].conditions[c].kind = written[r].conditions[c].kind
                          /\ Ids(compiled[r].conditions[c].source) = Ids(written[r].conditions[c].source)
                    /\ \A s \in 1..Len(written[r].execute) :
                          /\ compiled[r].execute[s].value = written[r].execute[s].value
                          /\ compiled[r].execute[s].kind = written[r].execute[s].kind
                          /\ Ids(compiled[r].execute[s].destination) = Ids(written[r].execute[s].destination)
              /\ w_pc[k] = "running" =>
                    /\ Len(per_rule[k]) = Len(written)
                    /\ \A r \in 1..Len(written) :
                          /\ Len(per_rule[k][r].per_condition) = Len(written[r].conditions)
                          /\ \A c \in 1..Len(written[r].conditions) :
                                per_rule[k][r].per_condition[c].range = written[r].conditions[c].range

\* The worker runs a script of two rules, the first of two conditions and one
\* statement, the second of one condition and two statements.
C23_Witness ==
    \E k \in Calls :
        /\ CompiledOk(k) /\ w_pc[k] = "running"
        /\ Len(per_rule[k]) = 2
        /\ Len(per_rule[k][1].per_condition) = 2 /\ Len(per_rule[k][2].per_condition) = 1
        /\ Len(script_of[k].rules[1].execute) = 1 /\ Len(script_of[k].rules[2].execute) = 2

\* The values a range accepts by its definition: values are ordered within
\* one type, and a value is never below, above or equal to one of another type.
Accepted(range) ==
    CASE range.tag = "Leq" ->
            {x \in ProbeValues : x.type = range.max.type /\ x.n <= range.max.n}
      [] range.tag = "Geq" ->
            {x \in ProbeValues : x.type = range.min.type /\ x.n >= range.min.n}
      [] range.tag = "Eq" -> {x \in ProbeValues : x = range.min}
      [] range.tag = "BetweenEq" ->
            {x \in ProbeValues : /\ x.type = range.min.type /\ range.min.n <= x.n
                                 /\ x.type = range.max.type /\ x.n <= range.max.n}
      [] range.tag = "OutOfStrict" ->
            {x \in ProbeValues : \/ x.type = range.min.type /\ x.n < range.min.n
                                 \/ x.type = range.max.type /\ range.max.n < x.n}
      [] range.tag = "Any" -> ProbeValues

\* C24: contains(range, value) is true exactly when the value is one that
\* the range accepts by its definition; a BetweenEq whose max is below its
\* min accepts nothing.
C24_Contains ==
    "contains" \in probe.called =>
       /\ probe.contains <=> probe.value \in Accepted(probe.range)
       /\ ( /\ probe.range.tag = "BetweenEq"
            /\ probe.range.min.type = probe.range.max.type
            /\ probe.range.max.n < probe.range.min.n ) => ~probe.contains

\* contains has accepted the upper bound of a BetweenEq.
C24_Witness ==
    /\ "contains" \in probe.called
    /\ probe.range = BetweenEq(Num(1), Num(2)) /\ probe.value = Num(2)
    /\ probe.contains

C26_GetType ==
    "get_type" \in probe.called =>
       /\ Cardinality(RangeTypes(probe.range)) = 1 =>
             probe.get_type.ok /\ probe.get_type.typ \in RangeTypes(probe.range)
       /\ probe.range.tag = "Any" => probe.get_type = [ok |-> TRUE, typ |-> "NoType"]
       /\ ~probe.get_type.ok <=>
             /\ probe.range.tag \in {"BetweenEq", "OutOfStrict"}
             /\ probe.range.min.type # probe.range.max.type

\* get_type has answered Err for a BetweenEq from a number to a boolean.
C26_Witness ==
    /\ "get_type" \in probe.called
    /\ probe.range = BetweenEq(Num(0), Bool(1))
    /\ ~probe.get_type.ok

\* The result of a Sent event reports an error of an actuator.
Refused(event) == event.ev = "Sent" /\ \E result \in event.results : result.result # "Ok"

\* C27: in a step where an actuator refuses a value, the sink receives one
\* Sent event for every statement of the rule, the refused one and those
\* after it, each with the results of one call to send_values, the
\* refusal among them; the worker keeps running with its subscriptions and
\* the rest of its inbox.
C27_ActuatorErrorsReported ==
    [][\A k \in Calls :
         (\E i \in 1..Len(NewEvents(k)) : Refused(NewEvents(k)[i])) =>
            LET new == NewEvents(k)
                msg == Head(inbox[k])
                execute == script_of[k].rules[msg.rule_index + 1].execute
            IN /\ Receives(k)
               /\ Len(new) = Len(execute)
               /\ \A i \in 1..Len(execute) :
                     /\ new[i].ev = "Sent" /\ new[i].statement_index = i - 1
                     /\ \A result \in new[i].results :
                           result.result = "Ok" <=>
                              execute[i].value.type = KindGetType(Setters[result.id])
               /\ w_pc'[k] = "running"
               /\ witnesses'[k] = witnesses[k]
               /\ inbox'[k] = Tail(inbox[k])]_vars

\* The fan refused the value of statement 0, the lamp accepted that of
\* statement 1, and the worker has then handled an InitializationError.
C27_Witness ==
    \E k \in Calls :
        /\ w_pc[k] = "running"
        /\ \E i \in 1..Len(sink[k]) :
              /\ i + 2 <= Len(sink[k])
              /\ Refused(sink[k][i]) /\ sink[k][i].statement_index = 0
              /\ sink[k][i + 1].ev = "Sent" /\ sink[k][i + 1].statement_index = 1
              /\ sink[k][i + 1].results = {[id |-> "lamp", result |-> "Ok"]}
              /\ sink[k][i + 2].ev = "ChannelError"

\* C28: when the worker handles an InitializationError, the sink receives
\* one ChannelError with the id of the channel and nothing else; the state
\* of the rules is unchanged and the worker keeps running with its
\* subscriptions.
C28_InitializationError ==
    [][\A k \in Calls :
         Handles(k, {"InitializationError"}) =>
            /\ NewEvents(k) = << ChannelError(Head(inbox[k]).event.id) >>
            /\ SubSeq(sink'[k], 1, Len(sink[k])) = sink[k]
            /\ per_rule'[k] = per_rule[k]
            /\ w_pc'[k] = "running"
            /\ witnesses'[k] = witnesses[k]]_vars

\* The worker has reported a ChannelError about s1 while its rule was met,
\* and has then handled a value of s2.
C28_Witness ==
    \E k \in Calls :
        /\ w_pc[k] = "running" /\ nevents = 3 /\ inbox[k] = << >>
        /\ Len(sink[k]) = 4 /\ sink[k][4] = ChannelError("s1")
        /\ sink[k][3].ev = "Sent"
        /\ per_rule[k][1].rule_is_met

\* The subscriptions among watches for the condition at position rc of the script.
WatchesOf(watches, rc) ==
    {i \in 1..Len(watches) :
        /\ watches[i].rule_index = rc[1] - 1
        /\ watches[i].condition_index = rc[2] - 1}

\* C29: the setup of the worker leaves one subscription for every condition
\* of its compiled script and no other, each with the source and the range
\* of its condition; the subscriptions are made at setup only and dropped
\* at the exit only; and every Update message that enters the inbox carries
\* the position of a condition whose source selects the getter of the event.
C29_OneWatchPerCondition ==
    [][\A k \in Calls :
         /\ (w_pc[k] = "setup" /\ w_pc'[k] # "setup") =>
               LET script == Script(k)
                   conditions == Conditions(script)
                   watches == witnesses'[k]
               IN /\ w_pc'[k] = "running"
                  /\ Len(watches) = Cardinality(conditions)
                  /\ \A rc \in conditions :
                        /\ Cardinality(WatchesOf(watches, rc)) = 1
                        /\ \A i \in WatchesOf(watches, rc) :
                              /\ watches[i].source = ConditionAt(script, rc).source
                              /\ watches[i].range = ConditionAt(script, rc).range
         /\ witnesses'[k] # witnesses[k] =>
               \/ w_pc[k] = "setup"
               \/ w_pc[k] = "stopping" /\ w_pc'[k] = "exited" /\ witnesses'[k] = << >>
         /\ w_pc[k] \in {"setup", "running", "stopping"} => script_of'[k] = script_of[k]
         /\ (Len(inbox'[k]) > Len(inbox[k]) /\ inbox'[k][Len(inbox'[k])].op = "Update") =>
               LET msg == inbox'[k][Len(inbox'[k])]
                   rc == << msg.rule_index + 1, msg.condition_index + 1 >>
                   script == Script(k)
               IN /\ rc \in Conditions(script)
                  /\ \E selector \in ConditionAt(script, rc).source :
                        Matches(selector, Getters, msg.event.id)]_vars

\* The worker of the script whose rule has two conditions runs with two
\* subscriptions, and a value of s2 is in its inbox with the position of the
\* second condition.
C29_Witness ==
    \E k \in Calls :
        /\ w_pc[k] = "running"
        /\ Len(witnesses[k]) = 2
        /\ \E i \in 1..Len(inbox[k]) :
              /\ inbox[k][i].op = "Update"
              /\ inbox[k][i].event.kind = "EnterRange"
              /\ inbox[k][i].event.id = "s2"
              /\ inbox[k][i].rule_index = 0 /\ inbox[k][i].condition_index = 1

\* C30: the worker takes its messages from the head of its inbox, one at a
\* time, and senders add at the end; while it runs, its sink and the state of
\* its rules change only by the full handling of the Update at the head; it
\* stops only on a Stop at the head, so all that was sent before is handled;
\* and once it has stopped it handles nothing.
C30_ArrivalOrder ==
    [][\A k \in Calls :
         /\ inbox'[k] # inbox[k] =>
               \/ Receives(k)
               \/ \E i \in 1..Len(inbox'[k]) :
                     i = Len(inbox'[k]) /\ inbox[k] = SubSeq(inbox'[k], 1, i - 1)
               \/ w_pc[k] = "stopping" /\ w_pc'[k] = "exited" /\ inbox'[k] = << >>
         /\ (w_pc[k] = "running" /\ (sink'[k] # sink[k] \/ per_rule'[k] # per_rule[k])) =>
               /\ Receives(k)
               /\ Head(inbox[k]).op = "Update"
               /\ LET msg == Head(inbox[k])
                      r == msg.rule_index + 1
                  IN /\ per_rule'[k] = [per_rule[k] EXCEPT ![r] = OnUpdate(@, msg)]
                     /\ sink'[k] = sink[k] \o Emitted(Script(k).rules[r], per_rule[k][r], msg)
         /\ (w_pc[k] = "running" /\ w_pc'[k] # "running") =>
               Receives(k) /\ Head(inbox[k]).op = "Stop" /\ w_pc'[k] = "stopping"
         /\ (w_pc[k] = "running" /\ Receives(k) /\ Head(inbox[k]).op = "Update") =>
               w_pc'[k] = "running"
         /\ w_pc[k] \in {"stopping", "exited"} =>
               /\ sink'[k] = sink[k]
               /\ w_pc'[k] \in {"stopping", "exited"}
               /\ per_rule'[k] # per_rule[k] => w_pc'[k] = "exited"
               /\ Len(inbox'[k]) < Len(inbox[k]) => w_pc'[k] = "exited"]_vars

\* The worker fired on a value sent before the Stop and has stopped on the
\* Stop, with a value sent after the Stop left in its inbox.
C30_Witness ==
    \E k \in Calls :
        /\ w_pc[k] = "stopping"
        /\ Firings(sink[k]) >= 1
        /\ inbox[k] # << >>
        /\ Head(inbox[k]).op = "Update"
        /\ Head(inbox[k]).event.kind = "EnterRange"

\* C31: a worker in its loop, the callback of a Stop included, holds the
\* subscription of every condition of its script; a worker that has
\* returned holds none.
C31_WatchesScoped ==
    \A k \in Calls :
        /\ w_pc[k] \in {"running", "stopping"} =>
              Len(witnesses[k]) = Cardinality(Conditions(script_of[k]))
        /\ w_pc[k] = "exited" => witnesses[k] = << >>

\* A worker that fired has returned on a Stop, and holds no subscription.
C31_Witness ==
    \E k \in Calls :
        /\ w_pc[k] = "exited"
        /\ witnesses[k] = << >>
        /\ Firings(sink[k]) >= 1
        /\ \E j \in StopCalls : cb_calls[j] = << "Ok" >>

\* The client drops the controller in this step.
Dropped == ctl_pc = "idle" /\ ctl_pc' = "dropped"

\* C32: dropping a controller whose worker runs puts a Stop at the end of the
\* inbox of that worker and nothing else; dropping a controller that is not
\* running, or whose script did not compile, changes no worker, no inbox
\* and no sink; and once the controller is dropped, every worker eventually
\* returns and holds no subscription.
C32_DropStops ==
    /\ [][Dropped =>
            /\ command_sender' = 0
            /\ UNCHANGED << w_pc, witnesses, per_rule, sink, start_result >>
            /\ \A k \in Calls :
                  IF k = command_sender /\ RxAlive(k)
                  THEN /\ Len(inbox'[k]) = Len(inbox[k]) + 1
                       /\ SubSeq(inbox'[k], 1, Len(inbox[k])) = inbox[k]
                       /\ inbox'[k][Len(inbox'[k])].op = "Stop"
                  ELSE inbox'[k] = inbox[k]]_vars
    /\ (ctl_pc = "dropped") ~>
          (\A k \in Calls : w_pc[k] \in {"none", "exited"} /\ witnesses[k] = << >>)

\* The controller was dropped while its worker ran, without a call to stop;
\* the worker has returned on the Stop of the drop.
C32_Witness ==
    /\ ctl_pc = "dropped"
    /\ nstops = 1
    /\ \E k \in Calls :
          /\ w_pc[k] = "exited" /\ rx_init[k] = "Ok"
          /\ witnesses[k] = << >>
          /\ cb_calls[1] = << "Ok" >>

\* The condition of position c of rule r of call k, in the state of the worker.
ConditionState(k, r, c) == per_rule[k][r].per_condition[c]

\* C33: after the worker has handled an event for a condition, the
\* match_is_met of that condition is the OR of the values recorded for its
\* getters, and the rule_is_met of its rule is recomputed from the
\* match_is_met of its conditions.
C33_ReevaluatedAfterEveryEvent ==
    [][\A k \in Calls :
         Handles(k, {"GetterAdded", "GetterRemoved", "EnterRange", "ExitRange"}) =>
            LET msg == Head(inbox[k])
                rule_state == per_rule'[k][msg.rule_index + 1]
                condition_state == rule_state.per_condition[msg.condition_index + 1]
            IN /\ condition_state.match_is_met = SomeGetterInRange(condition_state)
               /\ rule_state.rule_is_met = condition_is_met(rule_state.per_condition)]_vars

\* Every call to start made so far failed on a compilation error, and stop
\* was never called: the controller has never run a script.
OnlyCompileErrors ==
    /\ ctl_pc = "idle" /\ ncalls >= 1 /\ nstops = 0
    /\ \A k \in 1..ncalls : start_result[k] \notin {"none", "Ok", "AlreadyRunning"}

\* C34: after a start that failed on a compilation error, a call to start
\* is not rejected with AlreadyRunning, and a call to stop calls its callback
\* with NotRunning.
C34_NotRunningAfterCompileError ==
    [][OnlyCompileErrors =>
          /\ \A k \in Calls : StartCalled(k) => start_result'[k] # "AlreadyRunning"
          /\ \A j \in StopCalls : StopCalled(j) => cb_calls'[j] = << "NotRunning" >>]_vars

\* The client has made the j-th call to stop itself, not through a drop,
\* which is the last call on a controller.
ClientStopped(j) == nstops >= j /\ ~(ctl_pc = "dropped" /\ nstops = j)

\* C35: every call to stop eventually calls its callback, and never calls
\* it twice.
C35_StopCallbackAlways ==
    /\ [](\A j \in StopCalls : Len(cb_calls[j]) <= 1)
    /\ \A j \in StopCalls : ClientStopped(j) ~> (Len(cb_calls[j]) = 1)

\* C36: once a call to start has returned Ok, the worker of the call has made
\* its subscriptions.
C36_SubscribedWhenStartReturns ==
    \A k \in Calls : start_result[k] = "Ok" => w_pc[k] \in {"running", "stopping", "exited"}

\* The workers of this controller that hold subscriptions or are in their
\* loop, where they dispatch statements.
Alive == {k \in Calls : witnesses[k] # << >> \/ w_pc[k] = "running"}

\* C37: at most one worker of the controller is alive at any time.
C37_SingleWorker == Cardinality(Alive) <= 1

\* C38: when the worker handles EnterRange or ExitRange about a getter, the
\* value it records for the getter is whether the range of the condition,
\* as the script has it, contains the value of the event, whatever the tag
\* and whether or not the getter was recorded; what is recorded for the
\* other getters is unchanged; and a value in the range fires a rule that
\* was not met.
C38_RangeIsAuthoritative ==
    [][\A k \in Calls :
         Handles(k, {"EnterRange", "ExitRange"}) =>
            LET msg == Head(inbox[k])
                rc == << msg.rule_index + 1, msg.condition_index + 1 >>
                before == ConditionState(k, rc[1], rc[2]).per_getter
                after == per_rule'[k][rc[1]].per_condition[rc[2]].per_getter
            IN /\ DOMAIN after = DOMAIN before \cup {msg.event.id}
               /\ after[msg.event.id] =
                     contains(ConditionAt(script_of[k], rc).range, msg.event.value)
               /\ \A id \in DOMAIN before \ {msg.event.id} : after[id] = before[id]
               /\ (after[msg.event.id] /\ ~per_rule[k][rc[1]].rule_is_met) =>
                     NewEvents(k) = Dispatch(Script(k).rules[rc[1]], msg.rule_index)]_vars

\* The worker is about to handle an ExitRange whose value is in the range
\* of the condition, about a getter recorded as out of range by an
\* EnterRange, while its rule is not met.
C38_Witness ==
    \E k \in Calls :
        /\ w_pc[k] = "running" /\ inbox[k] # << >>
        /\ Head(inbox[k]).op = "Update"
        /\ Head(inbox[k]).event.kind = "ExitRange"
        /\ LET msg == Head(inbox[k])
               condition_state == ConditionState(k, msg.rule_index + 1, msg.condition_index + 1)
           IN /\ contains(condition_state.range, msg.event.value)
              /\ msg.event.id \in DOMAIN condition_state.per_getter
              /\ ~condition_state.per_getter[msg.event.id]
              /\ ~per_rule[k][msg.rule_index + 1].rule_is_met

\* C39: every Update message in the inbox of a worker in its loop carries
\* the index of a rule of the script and of the state of the worker, and the
\* index of a condition of that rule.
C39_IndicesInBounds ==
    \A k \in Calls :
        w_pc[k] = "running" =>
           \A i \in 1..Len(inbox[k]) :
              inbox[k][i].op = "Update" =>
                 LET r == inbox[k][i].rule_index + 1
                     c == inbox[k][i].condition_index + 1
                 IN /\ r \in 1..Len(script_of[k].rules) /\ r \in DOMAIN per_rule[k]
                    /\ c \in 1..Len(script_of[k].rules[r].conditions)
                    /\ c \in DOMAIN per_rule[k][r].per_condition

\* The worker has fired on an event of its first condition, and a value for
\* its last condition waits in its inbox.
C39_Witness ==
    \E k \in Calls :
        /\ w_pc[k] = "running"
        /\ Firings(sink[k]) >= 1
        /\ Len(inbox[k]) = 1 /\ inbox[k][1].op = "Update"
        /\ inbox[k][1].event.kind \in {"EnterRange", "ExitRange"}
        /\ inbox[k][1].rule_index = Len(per_rule[k]) - 1
        /\ inbox[k][1].condition_index = 1
        /\ Len(per_rule[k][1].per_condition) = 2

\* C40: when the worker handles an Update message of position (r, c), the
\* state of every rule but r is unchanged, the state of every condition of r
\* but c is unchanged, and the Sent events of the step are about rule r.
C40_OnlyItsRule ==
    [][\A k \in Calls :
         Handles(k, {"GetterAdded", "GetterRemoved", "EnterRange", "ExitRange",
                     "InitializationError"}) =>
            LET msg == Head(inbox[k])
                r == msg.rule_index + 1
                c == msg.condition_index + 1
            IN /\ DOMAIN per_rule'[k] = DOMAIN per_rule[k]
               /\ \A i \in DOMAIN per_rule[k] \ {r} : per_rule'[k][i] = per_rule[k][i]
               /\ DOMAIN per_rule'[k][r].per_condition = DOMAIN per_rule[k][r].per_condition
               /\ \A i \in DOMAIN per_rule[k][r].per_condition \ {c} :
                     per_rule'[k][r].per_condition[i] = per_rule[k][r].per_condition[i]
               /\ \A i \in 1..Len(NewEvents(k)) :
                     NewEvents(k)[i].ev = "Sent" => NewEvents(k)[i].rule_index = msg.rule_index]_vars

\* The worker of the script of two rules has handled an event of each rule:
\* the second rule is met and has fired, and the first holds what it
\* recorded for its second condition.
C40_Witness ==
    \E k \in Calls :
        /\ w_pc[k] = "running" /\ inbox[k] = << >> /\ nevents = 2
        /\ Len(per_rule[k]) = 2
        /\ per_rule[k][2].rule_is_met
        /\ \E i \in 1..Len(sink[k]) : sink[k][i].ev = "Sent" /\ sink[k][i].rule_index = 1
        /\ \A i \in 1..Len(sink[k]) : sink[k][i].ev = "Sent" => sink[k][i].rule_index = 1
        /\ DOMAIN per_rule[k][1].per_condition[2].per_getter = {"s2"}
        /\ DOMAIN per_rule[k][1].per_condition[1].per_getter = {}

====
